---- MODULE Spec2Model ----
(***************************************************************************)
(* A model of read_weewxdata.py: the script reads the rows of a weewx      *)
(* archive, derives once-daily maxima, minima and rainfall totals in one   *)
(* forward pass, selects the requested variables in a time range and       *)
(* plots them.                                                             *)
(*                                                                         *)
(* Units.  Time is counted in ticks of 1/TicksPerDay day (8640 s), so an   *)
(* epoch timestamp e stands for e*8640 seconds and a day number x is held  *)
(* as x*TicksPerDay: 1002 is day number 100.2.  gmt_offset is held in the  *)
(* same ticks (3 is 0.3 day).  Rainfall is held in hundredths of an inch.  *)
(* Python exceptions end the run in pc = "crash", exit() in pc = "exit".   *)
(* Three of the 52 columns are carried: the timestamp, Rainfall and one    *)
(* measured field, OutTemp.                                                *)
(***************************************************************************)
EXTENDS Integers, Sequences, FiniteSets, TLC

VARIABLES
  datav1,             \* rows fetched from the archive table
  gmt_offset,         \* day offset, in ticks
  view_request_time,  \* 1: plot the requested window; 0: the valid data only
  epoch_time1,        \* requested start
  epoch_time2,        \* requested end
  plot_var,           \* requested variable names
  plot_var2,          \* names requested for the second y axis, <<>> by default
  verbose,
  pc,                 \* position of the script
  err,                \* why the run ended early
  WxStationData,      \* raw store
  WxStationDailyData, \* daily store
  ADdays,
  r, d, currday, rain4day, rain4day_arr, dailydate, maxvars, minvars,
  i,                  \* index of the variable a loop over the names is at
  aidx, bidx,         \* <<>> while unassigned, else <<sequence of indices>>
  vd2, dtime,         \* <<>> while unassigned, else <<value>>
  report,             \* <<>>, else the <<first, last>> available time printed
  xlim,               \* <<>>, else the <<left, right>> limits set on the x axis
  plotted,            \* the series handed to the plotting layer
  plotted2,           \* the series plotted against the second y axis
  warned              \* the variables a "not plotted" warning was printed for

vars == <<datav1, gmt_offset, view_request_time, epoch_time1, epoch_time2,
          plot_var, plot_var2, verbose, pc, err, WxStationData, WxStationDailyData,
          ADdays, r, d, currday, rain4day, rain4day_arr, dailydate, maxvars,
          minvars, i, aidx, bidx, vd2, dtime, report, xlim, plotted,
          plotted2, warned>>

request == <<datav1, gmt_offset, view_request_time, epoch_time1, epoch_time2,
             plot_var, plot_var2, verbose>>
aggvars == <<ADdays, r, d, currday, rain4day, rain4day_arr, dailydate,
             maxvars, minvars>>
selvars == <<i, aidx, bidx, vd2, dtime, report, xlim, plotted, plotted2,
             warned>>

----------------------------------------------------------------------------
(* Time scale *)

TicksPerDay == 10

EPOCH_OFFSET == 719163

\* matplotlib.dates.epoch2num: days since 0001-01-01 plus one
epoch2num(e) == e + EPOCH_OFFSET * TicksPerDay

\* math.floor of a day number
floor(x) == x \div TicksPerDay

\* math.ceil of a difference of day numbers
ceil(x) == -((-x) \div TicksPerDay)

----------------------------------------------------------------------------
(* Bounds of the model and the inputs drawn within them *)

MaxLen == 3      \* rows of the inputs of the once-daily pass
MaxSpan == 33    \* ticks from the first possible to the last possible row
FirstDay == 100  \* day number at which the inputs of the once-daily pass start
MaxRows == 2     \* rows of the inputs of whole runs
MaxVars == 2     \* names in plot_var

\* the times of day at which a row may fall, in ticks after midnight UTC
Fracs == {0, 2, 3, 5, 9}

Offsets == {0, 3, 5}

\* epoch timestamp of the tick k ticks after the start of day number day
EpochAt(day, k) == day * TicksPerDay + k - EPOCH_OFFSET * TicksPerDay

RowTimes(day, span) ==
  {EpochAt(day, k) : k \in {j \in 0..span : (j % TicksPerDay) \in Fracs}}

\* <<Rainfall, OutTemp>> of the rows: row k of an input takes the value at
\* place k + shift, cyclically
RowVals == <<<<10, 1>>, <<20, -1>>, <<5, 0>>>>

ValueAt(k, shift) == RowVals[((k - 1 + shift) % Len(RowVals)) + 1]

Row(e, v) == [Epochtime |-> e, Rainfall |-> v[1], OutTemp |-> v[2]]

TimeOrdered(s) == \A k \in 1..(Len(s) - 1) : s[k].Epochtime <= s[k + 1].Epochtime

\* the inputs of up to len rows, in time order as the archive table yields them
Inputs(day, len, span, shifts) ==
  UNION {{[k \in 1..n |-> Row(t[k], ValueAt(k, sh))] :
            t \in {u \in [1..n -> RowTimes(day, span)] :
                     \A k \in 1..(n - 1) : u[k] <= u[k + 1]},
            sh \in shifts} : n \in 0..len}

----------------------------------------------------------------------------
(* Stores *)

\* a name that has not been assigned yet
Unset == <<>>

variablelist == <<"Epochtime", "Rainfall", "OutTemp">>

Range(s) == {s[k] : k \in DOMAIN s}

MaxName(v) ==
  CASE v = "Epochtime" -> "MaxEpochtime"
    [] v = "Rainfall" -> "MaxRainfall"
    [] v = "OutTemp" -> "MaxOutTemp"

MinName(v) ==
  CASE v = "Epochtime" -> "MinEpochtime"
    [] v = "Rainfall" -> "MinRainfall"
    [] v = "OutTemp" -> "MinOutTemp"

RECURSIVE Sum(_)
Sum(s) == IF s = <<>> THEN 0 ELSE s[1] + Sum(Tail(s))

\* a running sum that leaves the current row out
cumsumExclusive(s) == [k \in 1..Len(s) |-> Sum(SubSeq(s, 1, k - 1))]

\* numpy cumsum
cumsum(s) == [k \in 1..Len(s) |-> Sum(SubSeq(s, 1, k))]

\* np.zeros((len(variablelist), n)), one row per variable
zeros(n) == [v \in Range(variablelist) |-> [c \in 1..n |-> 0]]

----------------------------------------------------------------------------
(* Reading the input *)

\* a check that lets every list of rows through
HasDataAlways(rows) == TRUE

\* the list of fetched rows has data in it
HasData(rows) == Len(rows) > 0

ReadInput ==
  /\ pc = "read"
  /\ IF HasData(datav1)
       THEN /\ WxStationData' =
                 [k \in Range(variablelist) \cup {"variablelist"} |->
                    IF k = "variablelist" THEN variablelist
                    ELSE [n \in 1..Len(datav1) |-> datav1[n][k]]]
            /\ pc' = "derive"
            /\ err' = err
       ELSE /\ pc' = "exit"
            /\ err' = "No data in input file"
            /\ UNCHANGED WxStationData
  /\ UNCHANGED <<request, WxStationDailyData, aggvars, selvars>>

----------------------------------------------------------------------------
(* The once-daily pass *)

\* a preallocation without the column of the first day
NumColsTight(ad) == ceil(ad[Len(ad)] - ad[1])

\* columns preallocated for maxvars and minvars
NumCols(ad) == ceil(ad[Len(ad)] - ad[1]) + 1

\* a seed left at the zero the arrays are allocated with
SeedZero(x) == 0

\* value a running maximum or minimum starts from
SeedValue(x) == x

\* a new bucket that is taken to be the day after the one just closed
OpenDayNext(cur, ad) == cur + 1

\* the day a new bucket is opened at: the day of its first row
OpenDay(cur, ad) == floor(ad)

\* the boundary test of the loop
InOpenBucket(ad, cur, off) == ad < (cur + 1) * TicksPerDay + off

AccumRain(acc, x) == acc + x

\* a new day whose total starts empty, dropping its first row
NewBucketRainZero(x) == 0

\* rainfall total a new day starts from
NewBucketRain(x) == x

UpdateMax(cur, x) == IF x > cur THEN x ELSE cur

UpdateMin(cur, x) == IF x < cur THEN x ELSE cur

InitDailyPass ==
  /\ pc = "derive"
  /\ LET ad == [k \in 1..Len(datav1) |-> epoch2num(WxStationData["Epochtime"][k])]
         n == NumCols(ad)
     IN /\ ADdays' = ad
        /\ rain4day' = 0
        /\ rain4day_arr' = <<>>
        /\ dailydate' = <<>>
        /\ currday' = floor(ad[1])
        /\ IF n >= 1
             THEN /\ maxvars' = [v \in Range(variablelist) |->
                                   [zeros(n)[v] EXCEPT ![1] = SeedValue(WxStationData[v][1])]]
                  /\ minvars' = [v \in Range(variablelist) |->
                                   [zeros(n)[v] EXCEPT ![1] = SeedValue(WxStationData[v][1])]]
                  /\ pc' = "loop"
                  /\ err' = err
             ELSE /\ maxvars' = zeros(0)
                  /\ minvars' = zeros(0)
                  /\ pc' = "crash"
                  /\ err' = "IndexError: maxvars[v,0]"
        /\ d' = 0
        /\ r' = 0
  /\ UNCHANGED <<request, WxStationData, WxStationDailyData, selvars>>

DailyLoopStep ==
  /\ pc = "loop"
  /\ r < Len(ADdays)
  /\ LET row == [v \in Range(variablelist) |-> WxStationData[v][r + 1]]
         n == Len(maxvars["Epochtime"])
     IN IF InOpenBucket(ADdays[r + 1], currday, gmt_offset)
          THEN /\ rain4day' = AccumRain(rain4day, row["Rainfall"])
               /\ IF d + 1 <= n
                    THEN /\ maxvars' = [v \in Range(variablelist) |->
                                [maxvars[v] EXCEPT ![d + 1] = UpdateMax(@, row[v])]]
                         /\ minvars' = [v \in Range(variablelist) |->
                                [minvars[v] EXCEPT ![d + 1] = UpdateMin(@, row[v])]]
                         /\ pc' = pc
                         /\ err' = err
                    ELSE /\ pc' = "crash"
                         /\ err' = "IndexError: maxvars[v,d]"
                         /\ UNCHANGED <<maxvars, minvars>>
               /\ UNCHANGED <<rain4day_arr, dailydate, currday, d>>
          ELSE /\ rain4day_arr' = Append(rain4day_arr, rain4day)
               /\ dailydate' = Append(dailydate, currday)
               /\ currday' = OpenDay(currday, ADdays[r + 1])
               /\ rain4day' = NewBucketRain(row["Rainfall"])
               /\ d' = d + 1
               /\ IF d + 2 <= n
                    THEN /\ maxvars' = [v \in Range(variablelist) |->
                                [maxvars[v] EXCEPT ![d + 2] = SeedValue(row[v])]]
                         /\ minvars' = [v \in Range(variablelist) |->
                                [minvars[v] EXCEPT ![d + 2] = SeedValue(row[v])]]
                         /\ pc' = pc
                         /\ err' = err
                    ELSE /\ pc' = "crash"
                         /\ err' = "IndexError: maxvars[v,d]"
                         /\ UNCHANGED <<maxvars, minvars>>
  /\ r' = r + 1
  /\ UNCHANGED <<request, WxStationData, WxStationDailyData, ADdays, selvars>>

\* an end of the loop that leaves the open bucket out of the lists
FlushLastDaySkip ==
  /\ pc = "loop"
  /\ r = Len(ADdays)
  /\ pc' = "build"
  /\ UNCHANGED <<request, err, WxStationData, WxStationDailyData, ADdays, r, d,
                 currday, rain4day, rain4day_arr, dailydate, maxvars, minvars,
                 selvars>>

FlushLastDay ==
  /\ pc = "loop"
  /\ r = Len(ADdays)
  /\ rain4day_arr' = Append(rain4day_arr, rain4day)
  /\ dailydate' = Append(dailydate, currday)
  /\ pc' = "build"
  /\ UNCHANGED <<request, err, WxStationData, WxStationDailyData, ADdays, r, d,
                 currday, rain4day, maxvars, minvars, selvars>>

\* the keys of the daily store
DailyKeys ==
  {MaxName(v) : v \in Range(variablelist)} \cup {MinName(v) : v \in Range(variablelist)}
    \cup {"ADDailyDate", "Rain4Day", "variablelist"}

varlist2 ==
  <<"MaxEpochtime", "MinEpochtime", "MaxRainfall", "MinRainfall",
    "MaxOutTemp", "MinOutTemp", "ADDailyDate", "Rain4Day">>

BuildStores ==
  /\ pc = "build"
  /\ WxStationDailyData' =
       [k \in DailyKeys |->
          IF k = "ADDailyDate" THEN dailydate
          ELSE IF k = "Rain4Day" THEN rain4day_arr
          ELSE IF k = "variablelist" THEN varlist2
          ELSE IF \E v \in Range(variablelist) : k = MaxName(v)
                 THEN maxvars[CHOOSE v \in Range(variablelist) : k = MaxName(v)]
                 ELSE minvars[CHOOSE v \in Range(variablelist) : k = MinName(v)]]
  /\ WxStationData' =
       [k \in DOMAIN WxStationData \cup {"ADdays", "CumulativeRain"} |->
          IF k = "ADdays" THEN ADdays
          ELSE IF k = "CumulativeRain" THEN cumsum(WxStationData["Rainfall"])
          ELSE IF k = "variablelist"
                 THEN WxStationData["variablelist"] \o <<"ADdays", "CumulativeRain">>
                 ELSE WxStationData[k]]
  /\ pc' = "select"
  /\ UNCHANGED <<request, err, aggvars, selvars>>

----------------------------------------------------------------------------
(* Selection of the points to plot *)

\* np.where((arr >= lo) & (arr <= hi))[0]: the matching 0-based indices, ascending
Where(arr, lo, hi) ==
  SelectSeq([k \in 1..Len(arr) |-> k - 1],
            LAMBDA j : arr[j + 1] >= lo /\ arr[j + 1] <= hi)

\* arr[idx] for an index array idx; defined when ValidIndex(arr, idx)
Take(arr, idx) == [k \in 1..Len(idx) |-> arr[idx[k] + 1]]

ValidIndex(arr, idx) == \A k \in 1..Len(idx) : idx[k] < Len(arr)

InRaw(var) == var \in DOMAIN WxStationData

InDaily(var) == var \in DOMAIN WxStationDailyData

\* a no-data branch that skips the variable and goes on with the loop
NoDataNextSkip(daily) == "selloop"

\* where the script goes once a found variable has no point in the range:
\* the message needs MinEpochtime[0] and MaxEpochtime[-2]
NoDataNext(daily) ==
  IF Len(daily["MaxEpochtime"]) >= 2 THEN "exit" ELSE "crash"

NoDataReport(daily) ==
  <<daily["MinEpochtime"][1], daily["MaxEpochtime"][Len(daily["MaxEpochtime"]) - 1]>>

\* a script that keeps to the valid data whatever view_request_time says
WholeRequestNever(vrt) == FALSE

\* the user wants the whole requested time frame on the x axis
WholeRequest(vrt) == vrt = 1

BeginSelect ==
  /\ pc = "select"
  /\ IF WholeRequest(view_request_time)
       THEN /\ vd2' = <<epoch_time1>>
            /\ dtime' = <<epoch_time2 - epoch_time1>>
       ELSE UNCHANGED <<vd2, dtime>>
  /\ i' = 0
  /\ pc' = "selloop"
  /\ UNCHANGED <<request, err, WxStationData, WxStationDailyData, aggvars,
                 aidx, bidx, report, xlim, plotted, plotted2, warned>>

\* the no-data branch of the loop that keeps to the valid data
NoData ==
  /\ pc' = NoDataNext(WxStationDailyData)
  /\ IF NoDataNext(WxStationDailyData) = "exit"
       THEN /\ report' = NoDataReport(WxStationDailyData)
            /\ err' = "No data available"
       ELSE /\ report' = report
            /\ err' = "IndexError: MaxEpochtime[-2]"
  /\ UNCHANGED <<vd2, dtime>>

SelectVar ==
  /\ pc = "selloop"
  /\ i < Len(plot_var)
  /\ LET var == plot_var[i + 1]
         a == Where(WxStationData["Epochtime"], epoch_time1, epoch_time2)
         b == Where(WxStationDailyData["MinEpochtime"], epoch_time1, epoch_time2)
     IN IF InRaw(var)
          THEN /\ aidx' = <<a>>
               /\ bidx' = bidx
               /\ IF WholeRequest(view_request_time)
                    THEN UNCHANGED <<pc, err, report, vd2, dtime>>
                    ELSE IF Len(a) # 0
                      THEN /\ vd2' = <<WxStationData["Epochtime"][a[1] + 1]>>
                           /\ dtime' = <<WxStationData["Epochtime"][a[Len(a)] + 1]
                                           - WxStationData["Epochtime"][a[1] + 1]>>
                           /\ UNCHANGED <<pc, err, report>>
                      ELSE NoData
          ELSE IF InDaily(var)
            THEN /\ bidx' = <<b>>
                 /\ aidx' = aidx
                 /\ IF WholeRequest(view_request_time)
                      THEN UNCHANGED <<pc, err, report, vd2, dtime>>
                      ELSE IF Len(b) # 0
                        THEN /\ vd2' = <<WxStationDailyData["MinEpochtime"][b[1] + 1]>>
                             /\ dtime' = <<WxStationDailyData["MinEpochtime"][b[Len(b)] + 1]
                                             - WxStationDailyData["MinEpochtime"][b[1] + 1]>>
                             /\ UNCHANGED <<pc, err, report>>
                        ELSE NoData
            ELSE UNCHANGED <<pc, err, report, vd2, dtime, aidx, bidx>>
  /\ i' = i + 1
  /\ UNCHANGED <<request, WxStationData, WxStationDailyData, aggvars, xlim,
                 plotted, plotted2, warned>>

\* the loop is over; verbose mode prints dtime_hours
EndSelect ==
  /\ pc = "selloop"
  /\ i = Len(plot_var)
  /\ IF verbose = 1 /\ dtime = Unset
       THEN /\ pc' = "crash"
            /\ err' = "NameError: dtime_hours"
       ELSE /\ pc' = "plot"
            /\ err' = err
  /\ i' = 0
  /\ UNCHANGED <<request, WxStationData, WxStationDailyData, aggvars,
                 aidx, bidx, vd2, dtime, report, xlim, plotted, plotted2, warned>>

----------------------------------------------------------------------------
(* Plotting *)

Series(var, x, y) == [var |-> var, x |-> x, y |-> y]

PlotVar ==
  /\ pc = "plot"
  /\ i < Len(plot_var)
  /\ LET var == plot_var[i + 1]
     IN IF InRaw(var)
          THEN IF aidx = Unset
                 THEN /\ pc' = "crash"
                      /\ err' = "NameError: aidx"
                      /\ UNCHANGED <<plotted, warned>>
                 ELSE IF Len(aidx[1]) # 0
                   THEN /\ plotted' = Append(plotted,
                               Series(var,
                                      [k \in 1..Len(aidx[1]) |->
                                         epoch2num(Take(WxStationData["Epochtime"], aidx[1])[k])],
                                      Take(WxStationData[var], aidx[1])))
                        /\ UNCHANGED <<pc, err, warned>>
                   ELSE /\ warned' = Append(warned, var)
                        /\ UNCHANGED <<pc, err, plotted>>
          ELSE IF InDaily(var)
            THEN IF bidx = Unset
                   THEN /\ pc' = "crash"
                        /\ err' = "NameError: bidx"
                        /\ UNCHANGED <<plotted, warned>>
                   ELSE IF Len(bidx[1]) # 0
                     THEN IF /\ ValidIndex(WxStationDailyData["ADDailyDate"], bidx[1])
                             /\ ValidIndex(WxStationDailyData[var], bidx[1])
                            THEN /\ plotted' = Append(plotted,
                                        Series(var,
                                               Take(WxStationDailyData["ADDailyDate"], bidx[1]),
                                               Take(WxStationDailyData[var], bidx[1])))
                                 /\ UNCHANGED <<pc, err, warned>>
                            ELSE /\ pc' = "crash"
                                 /\ err' = "IndexError: ADDailyDate[bidx]"
                                 /\ UNCHANGED <<plotted, warned>>
                     ELSE /\ warned' = Append(warned, var)
                          /\ UNCHANGED <<pc, err, plotted>>
            ELSE /\ warned' = Append(warned, var)
                 /\ UNCHANGED <<pc, err, plotted>>
  /\ i' = i + 1
  /\ UNCHANGED <<request, WxStationData, WxStationDailyData, aggvars,
                 aidx, bidx, vd2, dtime, report, xlim, plotted2>>

\* where the script goes after the labels of the first axis
AfterLabels(pv2) == IF pv2 # <<>> THEN "plot2" ELSE "format"

\* legend, x label (reads vd2) and y label of the first variable
LabelAxes ==
  /\ pc = "plot"
  /\ i = Len(plot_var)
  /\ IF vd2 = Unset
       THEN /\ pc' = "crash"
            /\ err' = "NameError: vd2"
       ELSE IF plot_var[1] \in Range(WxStationData["variablelist"])
         THEN /\ pc' = AfterLabels(plot_var2)
              /\ err' = err
         ELSE IF plot_var[1] \in Range(WxStationDailyData["variablelist"])
           THEN /\ pc' = "crash"
                /\ err' = "AttributeError: set_"
           ELSE /\ pc' = AfterLabels(plot_var2)
                /\ err' = err
  /\ i' = IF pc' = "plot2" THEN 0 ELSE i
  /\ UNCHANGED <<request, WxStationData, WxStationDailyData, aggvars,
                 aidx, bidx, vd2, dtime, report, xlim, plotted, plotted2, warned>>

\* one variable of the loop over plot_var2, plotted against the second axis
PlotVar2 ==
  /\ pc = "plot2"
  /\ i < Len(plot_var2)
  /\ LET var == plot_var2[i + 1]
     IN IF InRaw(var)
          THEN IF aidx = Unset
                 THEN /\ pc' = "crash"
                      /\ err' = "NameError: aidx"
                      /\ UNCHANGED <<plotted2, warned>>
                 ELSE IF Len(aidx[1]) # 0
                   THEN /\ plotted2' = Append(plotted2,
                               Series(var,
                                      [k \in 1..Len(aidx[1]) |->
                                         epoch2num(Take(WxStationData["Epochtime"], aidx[1])[k])],
                                      Take(WxStationData[var], aidx[1])))
                        /\ UNCHANGED <<pc, err, warned>>
                   ELSE /\ warned' = Append(warned, var)
                        /\ UNCHANGED <<pc, err, plotted2>>
          ELSE IF InDaily(var)
            THEN IF bidx = Unset
                   THEN /\ pc' = "crash"
                        /\ err' = "NameError: bidx"
                        /\ UNCHANGED <<plotted2, warned>>
                   ELSE IF Len(bidx[1]) # 0
                     THEN IF /\ ValidIndex(WxStationDailyData["ADDailyDate"], bidx[1])
                             /\ ValidIndex(WxStationDailyData[var], bidx[1])
                            THEN /\ plotted2' = Append(plotted2,
                                        Series(var,
                                               Take(WxStationDailyData["ADDailyDate"], bidx[1]),
                                               Take(WxStationDailyData[var], bidx[1])))
                                 /\ UNCHANGED <<pc, err, warned>>
                            ELSE /\ pc' = "crash"
                                 /\ err' = "IndexError: ADDailyDate[bidx]"
                                 /\ UNCHANGED <<plotted2, warned>>
                     ELSE /\ warned' = Append(warned, var)
                          /\ UNCHANGED <<pc, err, plotted2>>
            ELSE /\ warned' = Append(warned, var)
                 /\ UNCHANGED <<pc, err, plotted2>>
  /\ i' = i + 1
  /\ UNCHANGED <<request, WxStationData, WxStationDailyData, aggvars,
                 aidx, bidx, vd2, dtime, report, xlim, plotted>>

\* y label of the second axis; its second test looks at plot_var[0], and its
\* unit is looked up before the label is set
LabelAxis2 ==
  /\ pc = "plot2"
  /\ i = Len(plot_var2)
  /\ IF plot_var2[1] \in Range(WxStationData["variablelist"])
       THEN /\ pc' = "format"
            /\ err' = err
       ELSE IF plot_var[1] \in Range(WxStationDailyData["variablelist"])
         THEN /\ pc' = "crash"
              /\ err' = IF plot_var2[1] \in Range(WxStationDailyData["variablelist"])
                          THEN "AttributeError: set_"
                          ELSE "ValueError: not in list"
         ELSE /\ pc' = "format"
              /\ err' = err
  /\ UNCHANGED <<request, WxStationData, WxStationDailyData, aggvars, selvars>>

\* x limits and tick locators (reads dtime_hours), then the window is shown
FormatAxis ==
  /\ pc = "format"
  /\ xlim' = IF WholeRequest(view_request_time)
               THEN <<epoch2num(epoch_time1), epoch2num(epoch_time2)>>
               ELSE xlim
  /\ IF dtime = Unset
       THEN /\ pc' = "crash"
            /\ err' = "NameError: dtime_hours"
       ELSE /\ pc' = "done"
            /\ err' = err
  /\ UNCHANGED <<request, WxStationData, WxStationDailyData, aggvars,
                 i, aidx, bidx, vd2, dtime, report, plotted, plotted2, warned>>

----------------------------------------------------------------------------
(* Specifications *)

InitRun ==
  /\ pc = "read"
  /\ err = ""
  /\ WxStationData = <<>>
  /\ WxStationDailyData = <<>>
  /\ ADdays = <<>>
  /\ r = 0 /\ d = 0 /\ currday = 0 /\ rain4day = 0
  /\ rain4day_arr = <<>> /\ dailydate = <<>>
  /\ maxvars = <<>> /\ minvars = <<>>
  /\ i = 0
  /\ aidx = Unset /\ bidx = Unset /\ vd2 = Unset /\ dtime = Unset
  /\ report = Unset
  /\ xlim = Unset
  /\ plotted = <<>>
  /\ plotted2 = <<>>
  /\ warned = <<>>

\* the once-daily pass over every input of up to MaxLen rows
InitAgg ==
  /\ datav1 \in Inputs(FirstDay, MaxLen, MaxSpan, 0..(Len(RowVals) - 1))
  /\ gmt_offset \in Offsets
  /\ view_request_time = 0
  /\ epoch_time1 = EpochAt(FirstDay, 0)
  /\ epoch_time2 = EpochAt(FirstDay, MaxSpan)
  /\ plot_var = <<"OutTemp">>
  /\ plot_var2 = <<>>
  /\ verbose = 0
  /\ InitRun

NextAgg == ReadInput \/ InitDailyPass \/ DailyLoopStep \/ FlushLastDay \/ BuildStores

SpecAgg == InitAgg /\ [][NextAgg]_vars

\* the once-daily pass under offsets of either sign, up to more than a day
AnyOffsets == {-12, -8, -3, 0, 5, 10, 17}

InitOff ==
  /\ datav1 \in Inputs(FirstDay, MaxLen, MaxSpan, {0})
  /\ gmt_offset \in AnyOffsets
  /\ view_request_time = 0
  /\ epoch_time1 = EpochAt(FirstDay, 0)
  /\ epoch_time2 = EpochAt(FirstDay, MaxSpan)
  /\ plot_var = <<"OutTemp">>
  /\ plot_var2 = <<>>
  /\ verbose = 0
  /\ InitRun

SpecOff == InitOff /\ [][NextAgg]_vars

\* whole runs: every request over the inputs of up to MaxRows rows, which
\* start on the day after 1970-01-01
SelFirstDay == EPOCH_OFFSET + 1

SelSpan == 10

PlotNames == {"OutTemp", "MaxOutTemp", "Bogus"}

ReqTimes == {0, EpochAt(SelFirstDay, 3), EpochAt(SelFirstDay, SelSpan)}

Init ==
  /\ datav1 \in Inputs(SelFirstDay, MaxRows, SelSpan, {0})
  /\ gmt_offset \in {0, 3}
  /\ view_request_time \in {0, 1}
  /\ epoch_time1 \in ReqTimes
  /\ epoch_time2 \in {t \in ReqTimes : epoch_time1 <= t}
  /\ plot_var \in UNION {[1..n -> PlotNames] : n \in 1..MaxVars}
  /\ plot_var2 = <<>>
  /\ verbose \in {0, 1}
  /\ InitRun

Next ==
  \/ ReadInput \/ InitDailyPass \/ DailyLoopStep \/ FlushLastDay \/ BuildStores
  \/ BeginSelect \/ SelectVar \/ EndSelect \/ PlotVar \/ LabelAxes \/ FormatAxis

Spec == Init /\ [][Next]_vars

\* whole runs with names for the second y axis
Init2 ==
  /\ datav1 \in Inputs(SelFirstDay, MaxRows, SelSpan, {0})
  /\ gmt_offset = 3
  /\ view_request_time \in {0, 1}
  /\ epoch_time1 \in ReqTimes
  /\ epoch_time2 \in {t \in ReqTimes : epoch_time1 <= t}
  /\ plot_var \in UNION {[1..n -> PlotNames] : n \in 1..MaxVars}
  /\ plot_var2 \in UNION {[1..n -> PlotNames] : n \in 1..MaxVars}
  /\ verbose = 0
  /\ InitRun

Next2 ==
  \/ ReadInput \/ InitDailyPass \/ DailyLoopStep \/ FlushLastDay \/ BuildStores
  \/ BeginSelect \/ SelectVar \/ EndSelect \/ PlotVar \/ LabelAxes
  \/ PlotVar2 \/ LabelAxis2 \/ FormatAxis

Spec2 == Init2 /\ [][Next2]_vars

----------------------------------------------------------------------------
(* What the properties are stated over *)

\* the daily store has been built
Built == DOMAIN WxStationDailyData # {}

Rows == 1..Len(datav1)

Fields == Range(variablelist)

SetMax(S) == CHOOSE x \in S : \A y \in S : y <= x

SetMin(S) == CHOOSE x \in S : \A y \in S : x <= y

\* floor(dayNumber - offset) of row k
AdjFloor(k) == floor(epoch2num(datav1[k].Epochtime) - gmt_offset)

AdjDays == {AdjFloor(k) : k \in Rows}

RainOf(s) == [k \in 1..Len(s) |-> s[k].Rainfall]

----------------------------------------------------------------------------
(* The once-daily pass *)

\* C1: once the daily store is built, ADDailyDate and Rain4Day hold one entry
\* per distinct value of floor(dayNumber - offset) among the rows.
C1_BucketCoverage ==
  Built =>
    /\ Len(WxStationDailyData["ADDailyDate"]) = Cardinality(AdjDays)
    /\ Len(WxStationDailyData["Rain4Day"]) = Cardinality(AdjDays)

\* the b-th day, in chronological order, on which a row falls
NthDay(b) == CHOOSE x \in AdjDays : Cardinality({y \in AdjDays : y < x}) = b - 1

\* C2: for every bucket and field, the stored maximum (minimum) is the maximum
\* (minimum) of the field over exactly the rows whose floor(dayNumber - offset)
\* is the day of the bucket, the buckets standing for the days in order.
C2_MinMaxCorrect ==
  Built =>
    \A b \in 1..Len(WxStationDailyData["ADDailyDate"]) : \A v \in Fields :
      /\ b <= Cardinality(AdjDays)
      /\ LET S == {datav1[k][v] : k \in {j \in Rows : AdjFloor(j) = NthDay(b)}}
         IN /\ WxStationDailyData[MaxName(v)][b] = SetMax(S)
            /\ WxStationDailyData[MinName(v)][b] = SetMin(S)

\* C3: every sequence of the daily store is as long as the number of buckets
\* the pass produced.
C3_DailyLengths ==
  Built =>
    \A k \in DOMAIN WxStationDailyData \ {"variablelist"} :
      Len(WxStationDailyData[k]) = d + 1

\* C4: while the pass runs, the closed totals plus the open accumulator are the
\* rainfall of the rows read so far; once it is over, the totals of Rain4Day
\* add up to the rainfall of the whole input.
C4_RainConserved ==
  /\ pc = "loop" => Sum(rain4day_arr) + rain4day = Sum(SubSeq(RainOf(datav1), 1, r))
  /\ pc = "build" => Sum(rain4day_arr) = Sum(RainOf(datav1))
  /\ Built => Sum(WxStationDailyData["Rain4Day"]) = Sum(RainOf(datav1))

\* C4 witness: a built store of several buckets, the later ones opened by rows
\* with rain.
C4_Witness ==
  /\ Built
  /\ Len(WxStationDailyData["Rain4Day"]) >= 2
  /\ \A k \in Rows : datav1[k].Rainfall > 0

\* the three rows at day numbers 100.2, 100.9 and 101.3 with rainfall 0.1, 0.2
\* and 0.05, under offset 0
Scenario9 ==
  /\ gmt_offset = 0
  /\ Len(datav1) = 3
  /\ [k \in Rows |-> epoch2num(datav1[k].Epochtime)] = <<1002, 1009, 1013>>
  /\ RainOf(datav1) = <<10, 20, 5>>

\* C9: the scenario yields exactly two buckets: day 100 with rainfall 0.3 and
\* the maxima and minima of rows 0 and 1, day 101 with rainfall 0.05 and row 2
\* as maximum and minimum; the daily store holds nothing else.
C9_Scenario ==
  (Scenario9 /\ Built) =>
    /\ WxStationDailyData["ADDailyDate"] = <<100, 101>>
    /\ WxStationDailyData["Rain4Day"] = <<30, 5>>
    /\ \A v \in Fields :
         /\ WxStationDailyData[MaxName(v)] =
              <<SetMax({datav1[1][v], datav1[2][v]}), datav1[3][v]>>
         /\ WxStationDailyData[MinName(v)] =
              <<SetMin({datav1[1][v], datav1[2][v]}), datav1[3][v]>>

\* C10: an input of one row yields one bucket whose maximum and minimum of
\* every field are the row's value and whose rainfall total is the row's
\* rainfall, and a CumulativeRain column of that one rainfall value.
C10_SingleRow ==
  (Len(datav1) = 1 /\ Built) =>
    /\ Len(WxStationDailyData["ADDailyDate"]) = 1
    /\ WxStationDailyData["Rain4Day"] = <<datav1[1].Rainfall>>
    /\ \A v \in Fields :
         /\ WxStationDailyData[MaxName(v)] = <<datav1[1][v]>>
         /\ WxStationDailyData[MinName(v)] = <<datav1[1][v]>>
    /\ WxStationData["CumulativeRain"] = <<datav1[1].Rainfall>>

\* C10 witness: the stores built from one row with a negative temperature,
\* under an offset above 0.
C10_Witness ==
  /\ Len(datav1) = 1
  /\ Built
  /\ gmt_offset > 0
  /\ datav1[1].OutTemp < 0
  /\ datav1[1].Rainfall > 0

----------------------------------------------------------------------------
(* Selection and plotting *)

Found(var) == InRaw(var) \/ InDaily(var)

\* the range filter of a found variable yields no point
EmptyFilter(var) ==
  IF InRaw(var)
    THEN \A k \in Rows : ~(epoch_time1 <= datav1[k].Epochtime
                            /\ datav1[k].Epochtime <= epoch_time2)
    ELSE \A c \in 1..Len(WxStationDailyData["MinEpochtime"]) :
           ~(epoch_time1 <= WxStationDailyData["MinEpochtime"][c]
              /\ WxStationDailyData["MinEpochtime"][c] <= epoch_time2)

NoPoints == {k \in 1..Len(plot_var) : Found(plot_var[k]) /\ EmptyFilter(plot_var[k])}

Ended == pc \in {"exit", "crash"}

NoDataErrors == {"No data available", "IndexError: MaxEpochtime[-2]"}

\* C5 as claimed: when the script keeps to the valid data, a requested variable
\* without points in the range does not make the script exit, and the run
\* plots every other requested variable that has points.
C5_NoPointsRecoverable ==
  (view_request_time = 0 /\ Built /\ NoPoints # {}) =>
    /\ pc # "exit"
    /\ pc = "done" =>
         \A k \in 1..Len(plot_var) :
           (Found(plot_var[k]) /\ ~EmptyFilter(plot_var[k])) =>
             \E p \in 1..Len(plotted) : plotted[p].var = plot_var[k]

\* C5 as amended: when the script keeps to the valid data, the first requested
\* variable that is found but has no point in the range ends the run inside
\* the selection loop, with the no-data error or with the IndexError its
\* message raises; nothing is plotted.
C5_NoPointsEndsRun ==
  (view_request_time = 0 /\ Built /\ NoPoints # {}) =>
    /\ plotted = <<>>
    /\ pc \in {"select", "selloop", "exit", "crash"}
    /\ pc = "selloop" => i < SetMin(NoPoints)
    /\ Ended => (err \in NoDataErrors /\ i = SetMin(NoPoints))

\* C5 witness: the run has ended on the no-data error although another
\* requested variable has points in the range.
C5_Witness ==
  /\ view_request_time = 0
  /\ Built
  /\ pc = "exit"
  /\ err = "No data available"
  /\ \E k \in 1..Len(plot_var) : Found(plot_var[k]) /\ ~EmptyFilter(plot_var[k])

\* C6: a run none of whose requested names is in a store is not ended early:
\* every name is skipped and the run goes on.
C6_UnknownNeverAborts ==
  (Built /\ \A k \in 1..Len(plot_var) : ~Found(plot_var[k])) => ~Ended

\* C7: when the script keeps to the valid data and finds none in the range, it
\* reports the first and the last timestamp of the whole series.
C7_TrueCoverage ==
  err \in NoDataErrors =>
    report = <<SetMin({datav1[k].Epochtime : k \in Rows}),
               SetMax({datav1[k].Epochtime : k \in Rows})>>

\* C8: the indices selected for a daily variable are the buckets whose
\* MinEpochtime lies in the requested range, in order, each below the number
\* of buckets.
C8_DailySelection ==
  bidx # Unset =>
    /\ Range(bidx[1]) =
         {b \in 0..(Len(WxStationDailyData["ADDailyDate"]) - 1) :
            /\ epoch_time1 <= WxStationDailyData["MinEpochtime"][b + 1]
            /\ WxStationDailyData["MinEpochtime"][b + 1] <= epoch_time2}
    /\ \A k \in 1..(Len(bidx[1]) - 1) : bidx[1][k] < bidx[1][k + 1]

----------------------------------------------------------------------------
(* The augmented raw store *)

\* C11: the CumulativeRain column has one entry per row; it starts at the
\* rainfall of the first row and each later entry adds the rainfall of its row
\* to the entry before; it never decreases and ends at the total rainfall.
C11_CumulativeRain ==
  InRaw("CumulativeRain") =>
    LET c == WxStationData["CumulativeRain"]
        rain == RainOf(datav1)
    IN /\ Len(c) = Len(datav1)
       /\ c[1] = rain[1]
       /\ \A k \in 2..Len(c) : c[k] = c[k - 1] + rain[k]
       /\ \A k \in 2..Len(c) : c[k - 1] <= c[k]
       /\ c[Len(c)] = Sum(rain)

C11_Witness ==
  /\ InRaw("CumulativeRain")
  /\ Len(datav1) = MaxLen
  /\ WxStationData["CumulativeRain"][1] > 0
  /\ WxStationData["CumulativeRain"][1] < WxStationData["CumulativeRain"][2]
  /\ WxStationData["CumulativeRain"][MaxLen] = Sum(RainOf(datav1))

----------------------------------------------------------------------------
(* The whole requested time frame *)

\* the errors a selection that found no window ends the run with, at once or
\* when the window is read
NoWindowErrors == NoDataErrors \cup {"NameError: vd2", "NameError: dtime_hours"}

\* C12: when the whole requested time frame is asked for, no run is ended by
\* a filter without points; from the selection loop on the window is the
\* requested start and the requested duration, and a run that gets to the end
\* has set the x axis to the requested start and end.
C12_RequestedWindow ==
  view_request_time = 1 =>
    /\ err \notin NoWindowErrors
    /\ pc = "exit" => Len(datav1) = 0
    /\ pc \in {"selloop", "plot", "format", "done"} =>
         /\ vd2 = <<epoch_time1>>
         /\ dtime = <<epoch_time2 - epoch_time1>>
    /\ pc = "done" => xlim = <<epoch2num(epoch_time1), epoch2num(epoch_time2)>>

\* C12 witness: a run over the whole requested time frame has got to the end
\* although a variable it found has no point in the range
C12_Witness ==
  /\ view_request_time = 1
  /\ pc = "done"
  /\ NoPoints # {}
  /\ warned # <<>>
  /\ plotted = <<>>
  /\ epoch_time1 < epoch_time2
  /\ xlim = <<epoch2num(epoch_time1), epoch2num(epoch_time2)>>

----------------------------------------------------------------------------
(* The order of the buckets *)

\* day number of row k
DayNumber(k) == epoch2num(datav1[k].Epochtime)

\* S is the set of the rows that open a bucket: the first row, and every later
\* row that is not before the end of the day of the latest opening row before
\* it, the end being shifted by the offset
OpensBuckets(S) ==
  /\ 1 \in S
  /\ \A k \in Rows \ {1} :
       k \in S <=>
         DayNumber(k) >=
           (floor(DayNumber(SetMax({s \in S : s < k}))) + 1) * TicksPerDay + gmt_offset

\* the b-th row of S
NthOf(S, b) == CHOOSE x \in S : Cardinality({y \in S : y < x}) = b - 1

\* C13: ADDailyDate is strictly increasing, holds for each bucket the floor of
\* the day number of the row that opened it, and holds nothing else: a row
\* that comes several days after the bucket before it opens one bucket, and
\* the days in between, on which no row falls, get no entry.
C13_ChronologicalBuckets ==
  Built =>
    LET dd == WxStationDailyData["ADDailyDate"]
    IN /\ \A b \in 1..(Len(dd) - 1) : dd[b] < dd[b + 1]
       /\ \A b \in 1..Len(dd) : \E k \in Rows : dd[b] = floor(DayNumber(k))
       /\ \E S \in SUBSET Rows :
            /\ OpensBuckets(S)
            /\ Len(dd) = Cardinality(S)
            /\ \A b \in 1..Len(dd) : dd[b] = floor(DayNumber(NthOf(S, b)))

\* C13 witness: under an offset, a row falls three days after the bucket before
\* it and the store holds the two days only
C13_Witness ==
  /\ Built
  /\ gmt_offset > 0
  /\ Len(datav1) = MaxLen
  /\ WxStationDailyData["ADDailyDate"] = <<FirstDay, FirstDay + 3>>

----------------------------------------------------------------------------
(* Empty input *)

\* C14: a run without rows does nothing but end on the empty-input error: no
\* store is filled, the once-daily pass, the selection and the plotting leave
\* everything as it was at the start.
C14_EmptyRejected ==
  Len(datav1) = 0 =>
    /\ pc \in {"read", "exit"}
    /\ pc = "exit" => err = "No data in input file"
    /\ pc = "read" => err = ""
    /\ WxStationData = <<>>
    /\ ~Built
    /\ ADdays = <<>> /\ dailydate = <<>> /\ rain4day_arr = <<>>
    /\ maxvars = <<>> /\ minvars = <<>>
    /\ aidx = Unset /\ bidx = Unset /\ vd2 = Unset /\ dtime = Unset
    /\ xlim = Unset /\ plotted = <<>> /\ warned = <<>>

C14_Witness ==
  /\ Len(datav1) = 0
  /\ pc = "exit"
  /\ err = "No data in input file"
  /\ plot_var # <<>>

----------------------------------------------------------------------------
(* Offsets outside [0, 1) *)

\* C15: whatever the offset, negative, zero or more than a day, the once-daily
\* pass over rows in time order is not ended by an error.
C15_AnyOffsetAccepted == Len(datav1) > 0 => pc # "crash"

----------------------------------------------------------------------------
(* The closing of the buckets *)

\* the row whose day the open bucket has when row k is tested: the latest row
\* of F before k, the first row if there is none
OpenedBy(F, k) ==
  IF {s \in F : s < k} = {} THEN 1 ELSE SetMax({s \in F : s < k})

\* F is the set of the rows that fail the boundary test
\* dayNumber < currday + 1 + offset
FailBoundary(F) ==
  \A k \in Rows :
    k \in F <=>
      ~(DayNumber(k) < (floor(DayNumber(OpenedBy(F, k))) + 1) * TicksPerDay + gmt_offset)

\* C16: while the loop runs, ADDailyDate-to-be and Rain4Day-to-be hold one
\* entry per row read that failed the boundary test; after the pass both hold
\* one entry more than the rows that failed it, the last entry being the day
\* and the total of the bucket open when the loop ended.
C16_ClosedOnce ==
  \E F \in SUBSET Rows :
    /\ FailBoundary(F)
    /\ pc = "loop" =>
         /\ Len(dailydate) = Cardinality({k \in F : k <= r})
         /\ Len(rain4day_arr) = Cardinality({k \in F : k <= r})
    /\ Built =>
         LET n == 1 + Cardinality(F)
         IN /\ Len(WxStationDailyData["ADDailyDate"]) = n
            /\ Len(WxStationDailyData["Rain4Day"]) = n
            /\ WxStationDailyData["ADDailyDate"][n] = currday
            /\ WxStationDailyData["Rain4Day"][n] = rain4day

\* C16 witness: three rows, the second of which failed the test, have left
\* two buckets, the last one holding the two rows read after the first closed
C16_Witness ==
  /\ Built
  /\ Len(datav1) = 3
  /\ Len(WxStationDailyData["ADDailyDate"]) = 2
  /\ WxStationDailyData["Rain4Day"][2] = datav1[2].Rainfall + datav1[3].Rainfall
  /\ WxStationDailyData["ADDailyDate"][2] = currday

----------------------------------------------------------------------------
(* The capacity of the per-day arrays *)

CapacityErrors == {"IndexError: maxvars[v,0]", "IndexError: maxvars[v,d]"}

\* C17: under an offset in [0, 1) the pass never writes outside maxvars and
\* minvars: they have ceil(last day number - first day number) + 1 columns and
\* the day counter d stays below that at every step of the loop.
C17_WithinCapacity ==
  (gmt_offset >= 0 /\ gmt_offset < TicksPerDay) =>
    /\ err \notin CapacityErrors
    /\ pc \in {"loop", "build"} =>
         \A v \in Fields :
           /\ Len(maxvars[v]) = ceil(DayNumber(Len(datav1)) - DayNumber(1)) + 1
           /\ Len(minvars[v]) = Len(maxvars[v])
           /\ d >= 0
           /\ d < Len(maxvars[v])

\* C17 witness: the pass has written the last preallocated column, the third
C17_Witness ==
  /\ pc = "build"
  /\ gmt_offset > 0
  /\ d = 2
  /\ Len(maxvars["OutTemp"]) = d + 1
  /\ maxvars["Epochtime"][d + 1] = datav1[Len(datav1)].Epochtime

----------------------------------------------------------------------------
(* The index sets of the plot loops *)

\* C18: no loop of the plotting step reads aidx or bidx, for a name it found
\* in the raw or in the daily store, before the selection has assigned it.
C18_AssignedBeforeRead == err \notin {"NameError: aidx", "NameError: bidx"}

====
